---------------------------- MODULE Spec2Model ----------------------------
(***************************************************************************)
(* A model of li_extract.py: the certificate metadata extractor.           *)
(*                                                                         *)
(* Python strings are TLA+ strings; a character is a string of length 1.   *)
(* Regular expressions are data (sequences of pattern elements) that a     *)
(* small backtracking matcher interprets with Python's re semantics:       *)
(* leftmost match, alternatives in order, greedy and lazy repetition.      *)
(***************************************************************************)
EXTENDS Integers, Sequences, FiniteSets, TLC

(***************************************************************************)
(* Characters and the str methods the program uses.                        *)
(***************************************************************************)
UpperChars == "ABCDEFGHIJKLMNOPQRSTUVWXYZ"
LowerChars == "abcdefghijklmnopqrstuvwxyz"
DigitChars == "0123456789"

CharAt(s, i) == SubSeq(s, i, i)

CharsOf(s) == {CharAt(s, i) : i \in 1..Len(s)}

Upper == CharsOf(UpperChars)
Lower == CharsOf(LowerChars)
Digit == CharsOf(DigitChars)
HexLower == Digit \cup CharsOf("abcdef")
\* \w on ASCII text: [a-zA-Z0-9_]
Word == Upper \cup Lower \cup Digit \cup {"_"}
\* \s
Space == {" ", "\n", "\t"}

\* str.lower() of one character
LowerOf == [c \in Upper |->
              CharAt(LowerChars, CHOOSE i \in 1..26 : CharAt(UpperChars, i) = c)]

lower_char(c) == IF c \in Upper THEN LowerOf[c] ELSE c

\* str.lower(): character by character (the halves keep the evaluation's
\* depth logarithmic in the length)
RECURSIVE lower(_)
lower(s) == IF Len(s) = 0 THEN ""
            ELSE IF Len(s) = 1 THEN lower_char(s)
            ELSE lower(SubSeq(s, 1, Len(s) \div 2))
                 \o lower(SubSeq(s, Len(s) \div 2 + 1, Len(s)))

\* s[:n]
prefix(s, n) == SubSeq(s, 1, IF n < Len(s) THEN n ELSE Len(s))

\* str.strip(chars): without the leading and trailing characters of chars
Min(S) == CHOOSE m \in S : \A o \in S : m <= o
Max(S) == CHOOSE m \in S : \A o \in S : o <= m

\* The least member of S and the greatest, or d when S is empty
MinOr(S, d) == IF S = {} THEN d ELSE Min(S)
MaxOr(S, d) == IF S = {} THEN d ELSE Max(S)

\* The characters of s from the first to the last of the positions ink
between(s, ink) == IF ink = {} THEN "" ELSE SubSeq(s, Min(ink), Max(ink))

strip_chars(s, chars) == between(s, {i \in 1..Len(s) : CharAt(s, i) \notin chars})

\* str.strip()
strip(s) == strip_chars(s, Space)

\* str.replace(old, new) for a one-character old
RECURSIVE replace(_, _, _)
replace(s, old, new) ==
    IF Len(s) = 0 THEN ""
    ELSE IF Len(s) = 1 THEN (IF s = old THEN new ELSE s)
    ELSE replace(SubSeq(s, 1, Len(s) \div 2), old, new)
         \o replace(SubSeq(s, Len(s) \div 2 + 1, Len(s)), old, new)

\* str.zfill(2)
zfill2(s) == IF Len(s) < 2 THEN "0" \o s ELSE s

(***************************************************************************)
(* The re module.  A pattern is a sequence of elements:                    *)
(*   Lit(s)              the literal s                                     *)
(*   Rep(cls, lo, hi)    lo..hi characters of cls, greedy; hi = Inf for    *)
(*                       an unbounded repetition                           *)
(*   Lazy(cls, lo, hi)   the same, lazy                                    *)
(*   Dot                 as cls: any character but a line break, and any   *)
(*                       character at all under DOTALL                     *)
(*   NotIn(cls)          as cls: a negated class                           *)
(*   Alt(<<p1, .., pn>>) the alternatives p1|..|pn, tried in order         *)
(*   Opt(p)              (?:p)?                                            *)
(*   Ahead(<<p1,..,pn>>) the lookahead (?=p1|..|pn)                        *)
(*   Bol, Eol            ^ and $                                           *)
(*   Open(i), Close(i)   the parentheses of group i, i in 1..3             *)
(*   Back1(lo)           \1 repeated lo or more times, greedy              *)
(* Flags are a set of "I" (IGNORECASE), "S" (DOTALL) and "M" (MULTILINE).  *)
(***************************************************************************)
Inf == 0 - 1
Dot == [neg |-> TRUE, set |-> {"\n"}, dot |-> TRUE]
In(cls) == [neg |-> FALSE, set |-> cls, dot |-> FALSE]
NotIn(cls) == [neg |-> TRUE, set |-> cls, dot |-> FALSE]

Lit(s) == [k |-> "lit", s |-> s]
Rep(cls, lo, hi) == [k |-> "rep", cls |-> cls, lo |-> lo, hi |-> hi, lazy |-> FALSE]
Lazy(cls, lo, hi) == [k |-> "rep", cls |-> cls, lo |-> lo, hi |-> hi, lazy |-> TRUE]
Alt(ps) == [k |-> "alt", alts |-> ps]
Opt(p) == [k |-> "alt", alts |-> <<p, <<>>>>]
Ahead(ps) == [k |-> "ahead", alts |-> ps]
Bol == [k |-> "bol"]
Eol == [k |-> "eol"]
Open(i) == [k |-> "open", i |-> i]
Close(i) == [k |-> "close", i |-> i]
Back1(lo) == [k |-> "back", lo |-> lo]

NoMatch == <<>>

\* Python's None where a string may stand (a string no text holds), and
\* where a record may stand
None == "\fNone"
NoRecord == <<>>

InClass(c, cls, flags) ==
    IF cls.dot /\ "S" \in flags THEN TRUE
    ELSE IF cls.neg THEN c \notin cls.set ELSE c \in cls.set

LitAt(t, pos, s, flags) ==
    /\ pos + Len(s) - 1 <= Len(t)
    /\ IF "I" \in flags
       THEN /\ lower_char(CharAt(t, pos)) = lower_char(CharAt(s, 1))
            /\ lower(SubSeq(t, pos, pos + Len(s) - 1)) = lower(s)
       ELSE SubSeq(t, pos, pos + Len(s) - 1) = s

\* The length of the run of characters of cls that starts at pos.
RunLen(t, pos, cls, flags) ==
    IF cls.dot /\ "S" \in flags THEN Len(t) - pos + 1
    ELSE MinOr({i \in pos..Len(t) : ~InClass(CharAt(t, i), cls, flags)},
               Len(t) + 1) - pos

\* ^ and $ at position pos of t
AtBol(t, pos, flags) ==
    pos = 1 \/ ("M" \in flags /\ CharAt(t, pos - 1) = "\n")

AtEol(t, pos, flags) ==
    \/ pos = Len(t) + 1
    \/ pos = Len(t) /\ CharAt(t, pos) = "\n"
    \/ "M" \in flags /\ pos <= Len(t) /\ CharAt(t, pos) = "\n"

NoGroups == <<<<0, 0>>, <<0, 0>>, <<0, 0>>>>

\* r if it is a match, and other if it is not
OrElse(r, other) == IF r # NoMatch THEN r ELSE other

\* The most a repetition up to hi may take of a run
Most(hi, run) == IF hi # Inf /\ hi < run THEN hi ELSE run

\* The match of pattern pat at position pos of t: NoMatch, or
\* [e |-> the position after the match, g |-> the groups, group i being
\* the characters g[i][1] .. g[i][2] - 1].  MatchEl matches the element el
\* and then the pattern rest.
RECURSIVE MatchAt(_, _, _, _, _)
RECURSIVE MatchEl(_, _, _, _, _, _)
RECURSIVE MatchAlts(_, _, _, _, _, _)
RECURSIVE MatchRep(_, _, _, _, _, _)
RECURSIVE MatchCount(_, _, _, _, _, _, _)
RECURSIVE MatchBack(_, _, _, _, _, _, _)
RECURSIVE MatchBackSeg(_, _, _, _, _, _, _, _)

MatchAt(t, pos, pat, g, flags) ==
    IF Len(pat) = 0 THEN [e |-> pos, g |-> g]
    ELSE MatchEl(t, pos, Head(pat), Tail(pat), g, flags)

MatchEl(t, pos, el, rest, g, flags) ==
    CASE el.k = "lit" ->
           IF LitAt(t, pos, el.s, flags)
           THEN MatchAt(t, pos + Len(el.s), rest, g, flags)
           ELSE NoMatch
      [] el.k = "open" ->
           MatchAt(t, pos, rest, [g EXCEPT ![el.i] = <<pos, pos>>], flags)
      [] el.k = "close" ->
           MatchAt(t, pos, rest, [g EXCEPT ![el.i][2] = pos], flags)
      [] el.k = "bol" ->
           IF AtBol(t, pos, flags) THEN MatchAt(t, pos, rest, g, flags)
           ELSE NoMatch
      [] el.k = "eol" ->
           IF AtEol(t, pos, flags) THEN MatchAt(t, pos, rest, g, flags)
           ELSE NoMatch
      [] el.k = "alt" -> MatchAlts(t, pos, el.alts, rest, g, flags)
      [] el.k = "ahead" ->
           IF MatchAlts(t, pos, el.alts, <<>>, g, flags) # NoMatch
           THEN MatchAt(t, pos, rest, g, flags)
           ELSE NoMatch
      [] el.k = "rep" -> MatchRep(t, pos, el, rest, g, flags)
      [] el.k = "back" -> MatchBack(t, pos, 0, el, rest, g, flags)

MatchAlts(t, pos, alts, rest, g, flags) ==
    IF Len(alts) = 0 THEN NoMatch
    ELSE OrElse(MatchAt(t, pos, Head(alts) \o rest, g, flags),
                MatchAlts(t, pos, Tail(alts), rest, g, flags))

\* The repetition el at pos: the counts it may take are lo..hi within the
\* run of class characters at pos; a greedy one takes the greatest count
\* after which the rest matches, a lazy one the least.  ok are those counts.
MatchRep(t, pos, el, rest, g, flags) ==
    MatchCount(t, pos, el, rest, g, flags,
               {n \in el.lo..Most(el.hi, RunLen(t, pos, el.cls, flags)) :
                  MatchAt(t, pos + n, rest, g, flags) # NoMatch})

MatchCount(t, pos, el, rest, g, flags, ok) ==
    IF ok = {} THEN NoMatch
    ELSE MatchAt(t, pos + (IF el.lazy THEN Min(ok) ELSE Max(ok)), rest, g, flags)

\* n copies of group 1 are consumed and pos is the next character; seg is
\* group 1.
MatchBack(t, pos, n, el, rest, g, flags) ==
    MatchBackSeg(t, pos, n, el, rest, g, flags, SubSeq(t, g[1][1], g[1][2] - 1))

MatchBackSeg(t, pos, n, el, rest, g, flags, seg) ==
    OrElse(IF LitAt(t, pos, seg, flags)
           THEN MatchBack(t, pos + Len(seg), n + 1, el, rest, g, flags)
           ELSE NoMatch,
           IF n >= el.lo THEN MatchAt(t, pos, rest, g, flags) ELSE NoMatch)

\* A match r that began at position s
MatchFrom(s, r) == [s |-> s, e |-> r.e, g |-> r.g]

\* The same, or NoMatch when r is
Matched(s, r) == IF r = NoMatch THEN NoMatch ELSE MatchFrom(s, r)

\* The match at the least of the positions hits
FirstHit(pat, t, flags, hits) ==
    IF hits = {} THEN NoMatch
    ELSE MatchFrom(Min(hits), MatchAt(t, Min(hits), pat, NoGroups, flags))

\* re.search(pat, t, flags), looking from position from on
search_from(pat, t, from, flags) ==
    FirstHit(pat, t, flags,
             {p \in from..(Len(t) + 1) : MatchAt(t, p, pat, NoGroups, flags) # NoMatch})

re_search(pat, t, flags) == search_from(pat, t, 1, flags)

\* re.match(pat, t)
re_match(pat, t) == Matched(1, MatchAt(t, 1, pat, NoGroups, {}))

\* m.group(i)
group(t, m, i) == SubSeq(t, m.g[i][1], m.g[i][2] - 1)

\* m.group(1) of a search, or None
found(t, m) == IF m = NoMatch THEN None ELSE group(t, m, 1)

\* re.findall(pat, t, flags) for a pattern with one group: group 1 of the
\* non-overlapping matches, from left to right; m is the next match
RECURSIVE findall_from(_, _, _, _)
RECURSIVE findall_match(_, _, _, _)
findall_from(pat, t, from, flags) ==
    findall_match(pat, t, flags, search_from(pat, t, from, flags))

findall_match(pat, t, flags, m) ==
    IF m = NoMatch THEN <<>>
    ELSE <<group(t, m, 1)>>
         \o findall_from(pat, t, IF m.e > m.s THEN m.e ELSE m.e + 1, flags)

re_findall(pat, t, flags) == findall_from(pat, t, 1, flags)

\* A piece of a rewritten text and the position after what it rewrote
Piece(out, next) == [out |-> out, next |-> next]
Pieces(a, b) == [out |-> a.out \o b.out, next |-> b.next]

\* re.sub(pat, repl, t): the non-overlapping matches from left to right,
\* each replaced by repl, which is a fixed string or "\\1" for group 1.
\* sub_block rewrites t from pos up to lim (a match may end beyond lim) and
\* tells where it stopped; sub_match does so given the match r at pos;
\* re_sub_from chains the blocks.
RECURSIVE sub_block(_, _, _, _, _)
RECURSIVE sub_match(_, _, _, _, _, _)
sub_block(pat, repl, t, pos, lim) ==
    IF pos > Len(t) \/ pos >= lim THEN Piece("", pos)
    ELSE sub_match(pat, repl, t, pos, lim, MatchAt(t, pos, pat, NoGroups, {}))

sub_match(pat, repl, t, pos, lim, r) ==
    IF r # NoMatch /\ r.e > pos
    THEN Pieces(Piece(IF repl = "\\1" THEN SubSeq(t, r.g[1][1], r.g[1][2] - 1)
                      ELSE repl, r.e),
                sub_block(pat, repl, t, r.e, lim))
    ELSE Pieces(Piece(CharAt(t, pos), pos + 1),
                sub_block(pat, repl, t, pos + 1, lim))

RECURSIVE re_sub_from(_, _, _, _)
RECURSIVE re_sub_after(_, _, _, _)
re_sub_from(pat, repl, t, pos) ==
    IF pos > Len(t) THEN ""
    ELSE re_sub_after(pat, repl, t, sub_block(pat, repl, t, pos, pos + 12))

re_sub_after(pat, repl, t, b) == b.out \o re_sub_from(pat, repl, t, b.next)

re_sub(pat, repl, t) == re_sub_from(pat, repl, t, 1)

(***************************************************************************)
(* os.path and urllib.parse.quote.                                         *)
(***************************************************************************)
LastSlash(path) == MaxOr({i \in 1..Len(path) : CharAt(path, i) = "/"}, 0)

dirname(path) == SubSeq(path, 1, LastSlash(path) - 1)

basename(path) == SubSeq(path, LastSlash(path) + 1, Len(path))

join(dir, name) == dir \o "/" \o name

endswith(s, suffix) ==
    Len(s) >= Len(suffix) /\ SubSeq(s, Len(s) - Len(suffix) + 1, Len(s)) = suffix

\* quote(): letters, digits and _.-~/ are kept, any other character is
\* percent-encoded
QuoteSafe == Word \cup {".", "-", "~", "/"}

PercentCode ==
    [c \in {" ", "!", ",", ":", "(", ")", "+", "&", "'", "\n", "\t"} |->
       CASE c = " " -> "%20" [] c = "!" -> "%21" [] c = "," -> "%2C"
         [] c = ":" -> "%3A" [] c = "(" -> "%28" [] c = ")" -> "%29"
         [] c = "+" -> "%2B" [] c = "&" -> "%26" [] c = "'" -> "%27"
         [] c = "\n" -> "%0A" [] c = "\t" -> "%09"]

RECURSIVE quote(_)
quote(s) ==
    IF Len(s) = 0 THEN ""
    ELSE IF Len(s) = 1 THEN (IF s \in QuoteSafe THEN s ELSE PercentCode[s])
    ELSE quote(SubSeq(s, 1, Len(s) \div 2))
         \o quote(SubSeq(s, Len(s) \div 2 + 1, Len(s)))

(***************************************************************************)
(* Configuration (config.yaml with the defaults of lines 333-335).         *)
(***************************************************************************)
repo == "lspironello/lspironello.github.io"
release_tag == "certs"
github_page_url == "https://lspironello.github.io"

(***************************************************************************)
(* clean_text, generate_cert_id, generate_course_url.                      *)
(***************************************************************************)
\* r'(.)\1+' and r'\s+'
RE_repeated == <<Open(1), Rep(Dot, 1, 1), Close(1), Back1(1)>>
RE_spaces == <<Rep(In(Space), 1, Inf)>>

clean_text_each_space(text) ==
    strip(re_sub(<<Rep(In(Space), 1, 1)>>, " ", re_sub(RE_repeated, "\\1", text)))

clean_text(text) ==
    strip(re_sub(RE_spaces, " ", re_sub(RE_repeated, "\\1", text)))

\* hashlib.sha256(bytes).hexdigest() is the hasher's business: the digest
\* of a document is a function of its bytes alone.
\* A document's bytes are named by a few hex digits, which lead its digest.
sha256_hexdigest(bytes) == bytes \o "9e107d9d372bb6826bd81d3542a419d6"

\* generate_cert_id(pdf_path) of a file holding the document doc
generate_cert_id(doc) == sha256_hexdigest(doc.bytes)

\* r'[^\w\s-]'
RE_slug == <<Rep(NotIn(Word \cup Space \cup {"-"}), 1, 1)>>

slug_of(title) ==
    strip_chars(replace(re_sub(RE_slug, "", lower(title)), " ", "-"), {"-"})

course_url(slug, provider_id) ==
    CASE provider_id = "linkedinlearning" ->
           "https://www.linkedin.com/learning/" \o slug
      [] provider_id = "udemy" -> "https://www.udemy.com/course/" \o slug \o "/"
      [] provider_id = "cybrary" -> "https://www.cybrary.it/course/" \o slug \o "/"
      [] provider_id = "deeplearningai" ->
           "https://www.deeplearning.ai/short-courses/" \o slug \o "/"
      [] OTHER -> ""

generate_course_url(title, provider_id) == course_url(slug_of(title), provider_id)

(***************************************************************************)
(* The file system: fs maps the path of every file to the document it      *)
(* holds, [bytes, readable, text]; Dirs are the directories.  A document   *)
(* that pdfplumber cannot open has readable = FALSE.                       *)
(***************************************************************************)
ProviderDirs == {"udemy", "cybrary", "deeplearningai", "linkedinlearning", "coursera"}
SubDirs == {"udemy/old", "cybrary/x", "cybrary/y", "deeplearningai/z",
            "linkedinlearning/old", "linkedinlearning/misc"}
Dirs == ProviderDirs \cup SubDirs

\* os.path.exists, os.path.isfile
exists(fs, path) == path \in DOMAIN fs \/ path \in Dirs
isfile(fs, path) == path \in DOMAIN fs

Without(f, x) == [y \in DOMAIN f \ {x} |-> f[y]]
With(f, x, v) == [y \in DOMAIN f \cup {x} |-> IF y = x THEN v ELSE f[y]]

\* os.rename(src, dst): raises when src is missing, when dst's directory is
\* missing or when dst is a directory; replaces a file at dst.
rename_raises(fs, src, dst) ==
    src \notin DOMAIN fs \/ dirname(dst) \notin Dirs \/ dst \in Dirs

os_rename(fs, src, dst) == With(Without(fs, src), dst, fs[src])

(***************************************************************************)
(* rename_file (lines 68-88): the name it derives.                         *)
(***************************************************************************)
\* r'[^\w\-]'
RE_not_word_hyphen == <<Rep(NotIn(Word \cup {"-"}), 1, 1)>>
\* r'(\d{4})-(\d{2})-(\d{2})'
RE_iso_date == <<Open(1), Rep(In(Digit), 4, 4), Close(1), Lit("-"),
                 Open(2), Rep(In(Digit), 2, 2), Close(2), Lit("-"),
                 Open(3), Rep(In(Digit), 2, 2), Close(3)>>
\* r'(\w+)\s+(\d{1,2}),\s+(\d{4})'
RE_month_day_year == <<Open(1), Rep(In(Word), 1, Inf), Close(1),
                       Rep(In(Space), 1, Inf),
                       Open(2), Rep(In(Digit), 1, 2), Close(2), Lit(","),
                       Rep(In(Space), 1, Inf),
                       Open(3), Rep(In(Digit), 4, 4), Close(3)>>

MonthKeys == <<"jan", "feb", "mar", "apr", "may", "jun",
               "jul", "aug", "sep", "oct", "nov", "dec">>
MonthVals == <<"01", "02", "03", "04", "05", "06",
               "07", "08", "09", "10", "11", "12">>

\* {...}.get(key, '01')
month_get(key) ==
    IF \E i \in 1..12 : MonthKeys[i] = key
    THEN MonthVals[CHOOSE i \in 1..12 : MonthKeys[i] = key]
    ELSE "01"

\* line 71
sanitize_title(title) ==
    replace(lower(re_sub(RE_not_word_hyphen, "", title)), " ", "-")

\* lines 72-81: the date as it enters the file name
date_of_parts(date, date_parts) ==
    IF date_parts = NoMatch THEN date
    ELSE group(date, date_parts, 3) \o "-"
         \o month_get(lower(prefix(group(date, date_parts, 1), 3))) \o "-"
         \o zfill2(group(date, date_parts, 2))

normalize_date(date) ==
    IF re_match(RE_iso_date, date) # NoMatch THEN date
    ELSE date_of_parts(date, re_match(RE_month_day_year, date))

\* lines 82-83
derived_name(date, title) == normalize_date(date) \o "-" \o sanitize_title(title) \o ".pdf"

(***************************************************************************)
(* rename_udemy_file (lines 90-110) and rename_cybrary_file (112-138): the *)
(* names they derive from the raw text of the first page.                  *)
(***************************************************************************)
\* pdfplumber.open(pdf_path) raises
open_raises(fs, pdf_path) == pdf_path \notin DOMAIN fs \/ ~fs[pdf_path].readable

\* r'completed the (.*?)(?: online course)? on', re.IGNORECASE
RE_udemy_file_title == <<Lit("completed the "), Open(1), Lazy(Dot, 0, Inf), Close(1),
                         Opt(<<Lit(" online course")>>), Lit(" on")>>
\* r'on (\w+\s+\d{1,2},\s+\d{4})'
RE_udemy_file_date == <<Lit("on "), Open(1), Rep(In(Word), 1, Inf),
                        Rep(In(Space), 1, Inf), Rep(In(Digit), 1, 2), Lit(","),
                        Rep(In(Space), 1, Inf), Rep(In(Digit), 4, 4), Close(1)>>

\* lines 96-99, given the two matches
udemy_new_name(text, title_match, date_match) ==
    IF title_match # NoMatch /\ date_match # NoMatch
    THEN replace(replace(group(text, date_match, 1), ",", ""), " ", "-")
         \o "-" \o lower(replace(strip(group(text, title_match, 1)), " ", "-"))
         \o ".pdf"
    ELSE None

udemy_file_name(text) ==
    udemy_new_name(text, re_search(RE_udemy_file_title, text, {"I"}),
                   re_search(RE_udemy_file_date, text, {}))

\* r'provided by Cybrary in\s+(.+?)(?:\n|$)', re.DOTALL | re.IGNORECASE
RE_cybrary_file_title == <<Lit("provided by Cybrary in"), Rep(In(Space), 1, Inf),
                           Open(1), Lazy(Dot, 1, Inf), Close(1),
                           Alt(<< <<Lit("\n")>>, <<Eol>> >>)>>
\* r'(?:Date of Completion\s+)?(\w+\s+\d{1,2},?\s+\d{4}|\d{1,2}/\d{1,2}/\d{4})'
RE_cybrary_file_date ==
    <<Opt(<<Lit("Date of Completion"), Rep(In(Space), 1, Inf)>>), Open(1),
      Alt(<< <<Rep(In(Word), 1, Inf), Rep(In(Space), 1, Inf), Rep(In(Digit), 1, 2),
               Opt(<<Lit(",")>>), Rep(In(Space), 1, Inf), Rep(In(Digit), 4, 4)>>,
             <<Rep(In(Digit), 1, 2), Lit("/"), Rep(In(Digit), 1, 2), Lit("/"),
               Rep(In(Digit), 4, 4)>> >>),
      Close(1)>>
\* r'(\d{1,2})/(\d{1,2})/(\d{4})'
RE_mdy == <<Open(1), Rep(In(Digit), 1, 2), Close(1), Lit("/"),
            Open(2), Rep(In(Digit), 1, 2), Close(2), Lit("/"),
            Open(3), Rep(In(Digit), 4, 4), Close(3)>>
\* the month-name form as dateutil reads it
RE_name_day_year == <<Open(1), Rep(In(Word), 1, Inf), Close(1), Rep(In(Space), 1, Inf),
                      Open(2), Rep(In(Digit), 1, 2), Close(2), Opt(<<Lit(",")>>),
                      Rep(In(Space), 1, Inf), Open(3), Rep(In(Digit), 4, 4), Close(3)>>

\* int() of a string of one or two digits
digit_val(c) == CHOOSE i \in 0..9 : CharAt(DigitChars, i + 1) = c
int2(s) == IF Len(s) = 1 THEN digit_val(s)
           ELSE 10 * digit_val(CharAt(s, 1)) + digit_val(CharAt(s, 2))

MonthNames == <<"january", "february", "march", "april", "may", "june", "july",
                "august", "september", "october", "november", "december">>

\* dateutil's parse(date_str).strftime('%Y-%m-%d') on the two forms the
\* pattern lets through: a month name (in full or its first three letters)
\* with a day and a year, and a numeric date, read month first unless only
\* day first is a date.  None stands for the parser's error.
named_date(w, d, y) ==
    IF (\E i \in 1..12 : w \in {MonthNames[i], MonthKeys[i]}) /\ int2(d) \in 1..31
    THEN y \o "-" \o MonthVals[CHOOSE i \in 1..12 : w \in {MonthNames[i], MonthKeys[i]}]
         \o "-" \o zfill2(d)
    ELSE None

numeric_date(a, b, y) ==
    IF int2(a) \in 1..12 /\ int2(b) \in 1..31
    THEN y \o "-" \o zfill2(a) \o "-" \o zfill2(b)
    ELSE IF int2(b) \in 1..12 /\ int2(a) \in 1..31
    THEN y \o "-" \o zfill2(b) \o "-" \o zfill2(a)
    ELSE None

parse_forms(date_str, named, mdy) ==
    IF named # NoMatch
    THEN named_date(lower(group(date_str, named, 1)), group(date_str, named, 2),
                    group(date_str, named, 3))
    ELSE IF mdy # NoMatch
    THEN numeric_date(group(date_str, mdy, 1), group(date_str, mdy, 2),
                      group(date_str, mdy, 3))
    ELSE None

parse_strftime(date_str) ==
    parse_forms(date_str, re_match(RE_name_day_year, date_str),
                re_match(RE_mdy, date_str))

\* lines 120-126
mdy_date(date_str, mdy_match) ==
    IF mdy_match # NoMatch
    THEN group(date_str, mdy_match, 3) \o "-"
         \o zfill2(group(date_str, mdy_match, 1)) \o "-"
         \o zfill2(group(date_str, mdy_match, 2))
    ELSE "unknown-date"

parsed_or_mdy(date_str, parsed) ==
    IF parsed # None THEN parsed
    ELSE mdy_date(date_str, re_match(RE_mdy, date_str))

cybrary_file_date(date_str) == parsed_or_mdy(date_str, parse_strftime(date_str))

\* lines 116-127, given the two matches
cybrary_new_name(text, title_match, date_match) ==
    IF title_match # NoMatch /\ date_match # NoMatch
    THEN cybrary_file_date(strip(group(text, date_match, 1)))
         \o "-" \o lower(replace(strip(group(text, title_match, 1)), " ", "-"))
         \o ".pdf"
    ELSE None

cybrary_file_name(text) ==
    cybrary_new_name(text, re_search(RE_cybrary_file_title, text, {"S", "I"}),
                     re_search(RE_cybrary_file_date, text, {}))

(***************************************************************************)
(* extract_metadata (lines 140-245): the patterns of each provider.        *)
(***************************************************************************)
\* r'(\d{4})'
RE_year == <<Open(1), Rep(In(Digit), 4, 4), Close(1)>>

\* re.search(r'(\d{4})', completion).group(1) if ... else None
year_of(completion) == found(completion, re_search(RE_year, completion, {}))

\* line 161: r'completed the (.+?)(?:online course)? on', I | S
RE_udemy_title == <<Lit("completed the "), Open(1), Lazy(Dot, 1, Inf), Close(1),
                    Opt(<<Lit("online course")>>), Lit(" on")>>
\* line 162: r'on (.+?)(?:Instructor|Certificate|UC-)', I | S
RE_udemy_date == <<Lit("on "), Open(1), Lazy(Dot, 1, Inf), Close(1),
                   Alt(<< <<Lit("Instructor")>>, <<Lit("Certificate")>>,
                          <<Lit("UC-")>> >>)>>
\* line 163: r'Certificate no\. (UC-[A-Z0-9]+)' and
\* r'Certificate url ude\.my/(UC-[A-Z0-9]+)'
RE_udemy_cert_no == <<Lit("Certificate no. "), Open(1), Lit("UC-"),
                      Rep(In(Upper \cup Digit), 1, Inf), Close(1)>>
RE_udemy_cert_url == <<Lit("Certificate url ude.my/"), Open(1), Lit("UC-"),
                       Rep(In(Upper \cup Digit), 1, Inf), Close(1)>>
\* line 164: r'Instructor: (.+?)(?:\n|$)', I
RE_udemy_instructor == <<Lit("Instructor: "), Open(1), Lazy(Dot, 1, Inf), Close(1),
                         Alt(<< <<Lit("\n")>>, <<Eol>> >>)>>

\* line 181: r'provided by Cybrary in\s+(.+?)(?:\n|Date)', I | S
RE_cybrary_title == <<Lit("provided by Cybrary in"), Rep(In(Space), 1, Inf),
                      Open(1), Lazy(Dot, 1, Inf), Close(1),
                      Alt(<< <<Lit("\n")>>, <<Lit("Date")>> >>)>>
\* line 182: r'(May \d{1,2}, \d{4} \d{1,2}:\d{2}[AP]M UTC|\d{2}/\d{2}/\d{4})'
RE_cybrary_date ==
    <<Open(1),
      Alt(<< <<Lit("May "), Rep(In(Digit), 1, 2), Lit(", "), Rep(In(Digit), 4, 4),
               Lit(" "), Rep(In(Digit), 1, 2), Lit(":"), Rep(In(Digit), 2, 2),
               Rep(In({"A", "P"}), 1, 1), Lit("M UTC")>>,
             <<Rep(In(Digit), 2, 2), Lit("/"), Rep(In(Digit), 2, 2), Lit("/"),
               Rep(In(Digit), 4, 4)>> >>),
      Close(1)>>
\* line 183: r'C-([a-f0-9]{8}-[a-f0-9]{6})'
RE_cybrary_cert == <<Lit("C-"), Open(1), Rep(In(HexLower), 8, 8), Lit("-"),
                     Rep(In(HexLower), 6, 6), Close(1)>>

\* line 196: r'congratulations on completing (.+?)(?=\.|!|\n)', I
RE_dlai_title == <<Lit("congratulations on completing "), Open(1), Lazy(Dot, 1, Inf),
                   Close(1),
                   Ahead(<< <<Lit(".")>>, <<Lit("!")>>, <<Lit("\n")>> >>)>>
\* line 197: r'(\d{4}-\d{2}-\d{2})'
RE_dlai_filename_date == <<Open(1), Rep(In(Digit), 4, 4), Lit("-"), Rep(In(Digit), 2, 2),
                           Lit("-"), Rep(In(Digit), 2, 2), Close(1)>>
\* line 198: r'^([A-Z][a-zA-Z\s]+)$', M
RE_dlai_skills == <<Bol, Open(1), Rep(In(Upper), 1, 1),
                    Rep(In(Upper \cup Lower \cup Space), 1, Inf), Close(1), Eol>>

\* line 211: r'CertificateOfCompletion_(.*?)(?:_|\.pdf)', I
RE_linkedin_title == <<Lit("CertificateOfCompletion_"), Open(1), Lazy(Dot, 0, Inf),
                       Close(1), Alt(<< <<Lit("_")>>, <<Lit(".pdf")>> >>)>>
\* line 212: r'completed by (\w+\s+\d{1,2},\s+\d{4})'
RE_linkedin_date == <<Lit("completed by "), Open(1), Rep(In(Word), 1, Inf),
                      Rep(In(Space), 1, Inf), Rep(In(Digit), 1, 2), Lit(","),
                      Rep(In(Space), 1, Inf), Rep(In(Digit), 4, 4), Close(1)>>
\* line 213: r'Top skills covered\s+(.+?)(?:Certificate ID|\n|$)', S
RE_linkedin_skills == <<Lit("Top skills covered"), Rep(In(Space), 1, Inf),
                        Open(1), Lazy(Dot, 1, Inf), Close(1),
                        Alt(<< <<Lit("Certificate ID")>>, <<Lit("\n")>>, <<Eol>> >>)>>
\* line 218: r'Certificate ID:\s*(\w+)'
RE_linkedin_cert == <<Lit("Certificate ID:"), Rep(In(Space), 0, Inf),
                      Open(1), Rep(In(Word), 1, Inf), Close(1)>>

\* The searches for the required fields of each provider: what each found
\* (group 1) or None.  text is the normalized text, name the file's basename.
udemy_searches(text) ==
    [title |-> found(text, re_search(RE_udemy_title, text, {"I", "S"})),
     date |-> found(text, re_search(RE_udemy_date, text, {"I", "S"})),
     cert |-> found(text, OrElse(re_search(RE_udemy_cert_no, text, {}),
                                 re_search(RE_udemy_cert_url, text, {})))]

cybrary_searches(text) ==
    [title |-> found(text, re_search(RE_cybrary_title, text, {"I", "S"})),
     date |-> found(text, re_search(RE_cybrary_date, text, {})),
     cert |-> found(text, re_search(RE_cybrary_cert, text, {}))]

dlai_searches(text, name) ==
    [title |-> found(text, re_search(RE_dlai_title, text, {"I"})),
     date |-> found(name, re_search(RE_dlai_filename_date, name, {})),
     cert |-> None]

linkedin_searches(text, name) ==
    [title |-> found(name, re_search(RE_linkedin_title, name, {"I"})),
     date |-> found(text, re_search(RE_linkedin_date, text, {})),
     cert |-> found(text, re_search(RE_linkedin_cert, text, {}))]

\* The conditions of lines 165, 184, 199 and 214
udemy_valid(m) == m.title # None /\ m.date # None
cybrary_valid_without_cert(m) == m.title # None /\ m.date # None
cybrary_valid(m) == m.title # None /\ m.date # None /\ m.cert # None
dlai_valid(m) == m.title # None /\ m.date # None
linkedin_valid(m) == m.title # None /\ m.date # None

\* lines 166-171
\* line 170
instructors_of(text, instructor_match) ==
    IF instructor_match # NoMatch
    THEN <<strip(group(text, instructor_match, 1))>> ELSE <<>>

udemy_fields(m, text, doc) ==
    [title |-> strip(m.title), completion |-> strip(m.date),
     instructors |-> instructors_of(text, re_search(RE_udemy_instructor, text, {"I"})),
     cert_id |-> IF m.cert # None THEN m.cert
                 ELSE prefix(generate_cert_id(doc), 8),
     skills |-> "", year |-> year_of(strip(m.date))]

\* lines 185-190
cybrary_fields(m) ==
    [title |-> strip(m.title), completion |-> strip(m.date), instructors |-> <<>>,
     cert_id |-> m.cert, skills |-> "", year |-> year_of(strip(m.date))]

\* ', '.join(...) of line 204
RECURSIVE join_skills(_)
join_skills(ss) ==
    IF Len(ss) = 0 THEN ""
    ELSE IF Len(ss) = 1 THEN Head(ss)
    ELSE Head(ss) \o ", " \o join_skills(Tail(ss))

\* lines 200-205
\* line 204: the skill lines that are kept, stripped
kept_skills(skills_match) ==
    SelectSeq([i \in 1..Len(skills_match) |-> strip(skills_match[i])],
              LAMBDA w : w # "" /\ Len(w) > 2)

dlai_fields(m, text, doc) ==
    [title |-> strip(m.title), completion |-> m.date,
     instructors |-> <<"DeepLearning.AI">>,
     cert_id |-> prefix(generate_cert_id(doc), 8),
     skills |-> join_skills(kept_skills(re_findall(RE_dlai_skills, text, {"M"}))),
     year |-> prefix(m.date, 4)]

\* lines 215-220
\* line 219
skills_of(text, skills_match) ==
    IF skills_match # NoMatch /\ group(text, skills_match, 1) # ""
    THEN strip(group(text, skills_match, 1)) ELSE ""

linkedin_fields(m, text, doc) ==
    [title |-> replace(strip(m.title), "_", " "), completion |-> strip(m.date),
     instructors |-> <<>>,
     cert_id |-> IF m.cert # None THEN m.cert
                 ELSE prefix(generate_cert_id(doc), 8),
     skills |-> skills_of(text, re_search(RE_linkedin_skills, text, {"S"})),
     year |-> year_of(strip(m.date))]

\* lines 160-226: the searches of provider_id on a document, and the fields
\* it extracts, NoRecord when a required one is missing or the provider unknown
provider_searches(provider_id, text, name) ==
    CASE provider_id = "udemy" -> udemy_searches(text)
      [] provider_id = "cybrary" -> cybrary_searches(text)
      [] provider_id = "deeplearningai" -> dlai_searches(text, name)
      [] provider_id = "linkedinlearning" -> linkedin_searches(text, name)
      [] OTHER -> [title |-> None, date |-> None, cert |-> None]

fields_of(provider_id, m, text, doc) ==
    CASE provider_id = "udemy" ->
           IF udemy_valid(m) THEN udemy_fields(m, text, doc) ELSE NoRecord
      [] provider_id = "cybrary" ->
           IF cybrary_valid(m) THEN cybrary_fields(m) ELSE NoRecord
      [] provider_id = "deeplearningai" ->
           IF dlai_valid(m) THEN dlai_fields(m, text, doc) ELSE NoRecord
      [] provider_id = "linkedinlearning" ->
           IF linkedin_valid(m) THEN linkedin_fields(m, text, doc) ELSE NoRecord
      [] OTHER -> NoRecord

provider_fields(provider_id, text, name, doc) ==
    fields_of(provider_id, provider_searches(provider_id, text, name), text, doc)

filtered_out_without_year(f, filter_skill, filter_year, filter_title) ==
    \/ filter_skill # "" /\ re_search(<<Lit(filter_skill)>>, f.skills, {"I"}) = NoMatch
    \/ filter_title # "" /\ re_search(<<Lit(filter_title)>>, f.title, {"I"}) = NoMatch

\* lines 228-231: a filter is a pattern of literal characters, "" when the
\* option is not given
filtered_out(f, filter_skill, filter_year, filter_title) ==
    \/ filter_skill # "" /\ re_search(<<Lit(filter_skill)>>, f.skills, {"I"}) = NoMatch
    \/ filter_year # "" /\ f.year # filter_year
    \/ filter_title # "" /\ re_search(<<Lit(filter_title)>>, f.title, {"I"}) = NoMatch

\* line 235
pdf_url_of(pdf_path, test_mode) ==
    IF test_mode
    THEN github_page_url \o "/assets/pdfs/" \o quote(basename(pdf_path))
    ELSE "https://github.com/" \o repo \o "/releases/download/" \o release_tag
         \o "/" \o quote(basename(pdf_path))

\* lines 233-241
metadata_of(f, pdf_path, test_mode, fetch_urls, provider_id) ==
    [title |-> f.title, completion |-> f.completion, skills |-> f.skills,
     year |-> f.year, cert_id |-> f.cert_id, instructors |-> f.instructors,
     cert_url |-> "",
     course_url |-> IF fetch_urls THEN generate_course_url(f.title, provider_id) ELSE "",
     pdf_url |-> pdf_url_of(pdf_path, test_mode), provider |-> provider_id]

(***************************************************************************)
(* The documents under BASE_DIR (paths are relative to it).                *)
(***************************************************************************)
Pdf(bytes, text) == [bytes |-> bytes, readable |-> TRUE, text |-> text]
Broken(bytes) == [bytes |-> bytes, readable |-> FALSE, text |-> ""]

UdemyFiles ==
    ("udemy/a.pdf" :> Pdf("a1",
        "Ann completed the Intro to Networking! online course on March 5, 2024\nInstructor: Bob"))
 @@ ("udemy/b.pdf" :> Pdf("a2",
        "Joe completed the Intro to Networking! on March 5, 2024\nCertificate no. UC-7XK2"))
 @@ ("udemy/notes.txt" :> Broken("a3"))
 @@ ("udemy/old/c.pdf" :> Pdf("a4",
        "Ann completed the Linux Basics course on March 9, 2024"))
 @@ ("udemy/old/d.pdf" :> Pdf("a5",
        "Certificate of attendance on March 7, 2024 Instructor: Bob"))
 @@ ("udemy/old/g.pdf" :> Pdf("a6",
        "Ann completed the Git course on 03/05/2024 Instructor: Bob"))

CybraryFiles ==
    ("cybrary/a.pdf" :> Pdf("b1",
        "provided by Cybrary in\nIntro to Pentest\nDate of Completion May 3, 2024 10:15AM UTC\nC-0a1b2c3d-4e5f6a"))
 @@ ("cybrary/j.pdf" :> Pdf("b2",
        "provided by Cybrary in\nIntro to Forensics\nDate of Completion June 3, 2024 10:15AM UTC\nC-1a2b3c4d-5e6f7a"))
 @@ ("cybrary/x/s.pdf" :> Pdf("b3",
        "provided by Cybrary in\nOSINT\nDate 03/05/2024 renewed May 3, 2024 10:15AM UTC\nC-2a3b4c5d-6e7f8a"))
 @@ ("cybrary/x/n.pdf" :> Pdf("b4",
        "provided by Cybrary in\nSOC Basics\nDate May 4, 2024 9:05PM UTC"))
 @@ ("cybrary/y/t.pdf" :> Pdf("b5",
        "Cybrary certificate\nDate May 5, 2024 9:05PM UTC\nC-3a4b5c6d-7e8f9a"))
 @@ ("cybrary/y/e.pdf" :> Pdf("b6",
        "provided by Cybrary in\nSIEM\nDate unknown\nC-4a5b6c7d-8e9f0a"))

DlaiFiles ==
    ("deeplearningai/2024-01-15-agents.pdf" :> Pdf("c1",
        "Congratulations on completing AI Agents!\nJan 15, 2024"))
 @@ ("deeplearningai/broken.pdf" :> Broken("c4"))
 @@ ("deeplearningai/z/agents.pdf" :> Pdf("c2",
        "Congratulations  on completing AI Agents!\nJan 15, 2024"))
 @@ ("deeplearningai/z/2024-02-01-rag.pdf" :> Pdf("c3",
        "Certificate of participation. RAG"))

LinkedinFiles ==
    ("linkedinlearning/CertificateOfCompletion_Intro to SQL.pdf" :> Pdf("d1",
        "Course completed by Mar 5, 2024\nTop skills covered\nSQL\nCertificate ID: AbC1xyz"))
 @@ ("linkedinlearning/old/CertificateOfCompletion_Intro to SQL.pdf" :> Pdf("d2",
        "Course completed by Mar 5, 2023\nTop skills covered\nSQL"))
 @@ ("linkedinlearning/old/cert.pdf" :> Pdf("d3",
        "Course completed by Feb 1, 2024"))
 @@ ("linkedinlearning/misc/CertificateOfCompletion_.pdf" :> Pdf("d4",
        "Course completed by Apr 7, 2023"))
 @@ ("linkedinlearning/misc/CertificateOfCompletion_Excel_2.pdf" :> Pdf("d5",
        "Excel course"))

CourseraFiles ==
    ("coursera/a.pdf" :> Pdf("e1", "Coursera certificate\nMarch 5, 2024"))

InitialFS == UdemyFiles @@ CybraryFiles @@ DlaiFiles @@ LinkedinFiles @@ CourseraFiles

\* providers.yml (lines 336-338): the four known providers and one more
providers ==
    <<[provider |-> "udemy", subdirectory |-> "udemy"],
      [provider |-> "cybrary", subdirectory |-> "cybrary"],
      [provider |-> "deeplearningai", subdirectory |-> "deeplearningai"],
      [provider |-> "linkedinlearning", subdirectory |-> "linkedinlearning"],
      [provider |-> "coursera", subdirectory |-> "coursera"]>>

\* os.walk(provider_dir): the directories in the order it yields them
walk_dirs(provider_dir) ==
    CASE provider_dir = "udemy" -> <<"udemy", "udemy/old">>
      [] provider_dir = "cybrary" -> <<"cybrary", "cybrary/x", "cybrary/y">>
      [] provider_dir = "deeplearningai" -> <<"deeplearningai", "deeplearningai/z">>
      [] provider_dir = "linkedinlearning" ->
           <<"linkedinlearning", "linkedinlearning/old", "linkedinlearning/misc">>
      [] OTHER -> <<provider_dir>>

\* the names in files of a directory that end with '.pdf' (lines 366, 378)
pdf_files(fs, dir) ==
    {basename(path) : path \in {q \in DOMAIN fs : dirname(q) = dir /\ endswith(q, ".pdf")}}

(***************************************************************************)
(* The analyses of the documents above, evaluated once: each table holds   *)
(* the values of the operator it names on the texts of the documents.      *)
(***************************************************************************)
CorpusTexts == {InitialFS[q].text : q \in DOMAIN InitialFS}

\* line 146
clean_text_table == [t \in CorpusTexts |-> clean_text(t)]

\* lines 94-98 and 116-127
udemy_file_name_table == [t \in CorpusTexts |-> udemy_file_name(t)]
cybrary_file_name_table == [t \in CorpusTexts |-> cybrary_file_name(t)]

\* The file name enters the searches of two providers only (197, 211)
name_read(provider_id, name) ==
    IF provider_id \in {"deeplearningai", "linkedinlearning"} THEN name ELSE ""

under(q, dir) == prefix(q, Len(dir) + 1) = dir \o "/"

\* What provider_fields reads of a file at path of provider provider_id
\* that holds doc, whose normalized text is text
fields_key(provider_id, text, path, doc) ==
    <<provider_id, text, name_read(provider_id, basename(path)), doc>>

FieldKeys ==
    {fields_key(providers[x[1]].provider, clean_text_table[InitialFS[x[2]].text],
                x[2], InitialFS[x[2]]) :
       x \in {y \in (1..Len(providers)) \X DOMAIN InitialFS :
                under(y[2], providers[y[1]].subdirectory)}}

\* lines 160-226
provider_fields_table ==
    [k \in FieldKeys |-> provider_fields(k[1], k[2], k[3], k[4])]

\* lines 160-226: what the searches of each provider find in each document
provider_searches_table ==
    [k \in FieldKeys |-> provider_searches(k[1], k[2], k[3])]

DerivedKeys ==
    {<<f.completion, f.title>> :
       f \in {provider_fields_table[k] : k \in FieldKeys} \ {NoRecord}}

\* lines 71-83
derived_name_table == [k \in DerivedKeys |-> derived_name(k[1], k[2])]

(***************************************************************************)
(* rename_file (lines 84-87), rename_udemy_file (96-108) and               *)
(* rename_cybrary_file (127-136) on the file system.                       *)
(***************************************************************************)
may_rename_unchecked(fs, file_path, new_path) == file_path # new_path

\* line 84
may_rename(fs, file_path, new_path) ==
    file_path # new_path /\ ~exists(fs, new_path)

\* lines 84-87
rename_to(fs, file_path, new_path) ==
    IF may_rename(fs, file_path, new_path)
    THEN IF rename_raises(fs, file_path, new_path)
         THEN [fs |-> fs, path |-> file_path, raised |-> TRUE]
         ELSE [fs |-> os_rename(fs, file_path, new_path), path |-> new_path,
               raised |-> FALSE]
    ELSE [fs |-> fs, path |-> new_path, raised |-> FALSE]

\* rename_file(file_path, date, title): the file system it leaves, the path
\* it returns and whether it raised.
rename_file(fs, file_path, date, title) ==
    IF date # None /\ date # "" /\ title # None /\ title # ""
    THEN rename_to(fs, file_path,
                   join(dirname(file_path), derived_name_table[<<date, title>>]))
    ELSE [fs |-> fs, path |-> file_path, raised |-> FALSE]

\* line 103 and line 131
may_rename_isfile(fs, new_path) == ~isfile(fs, new_path)

\* lines 103-104 and 131-132; an error of os.rename is caught (108, 136)
rename_if_free(fs, pdf_path, new_path) ==
    IF may_rename_isfile(fs, new_path) /\ ~rename_raises(fs, pdf_path, new_path)
    THEN os_rename(fs, pdf_path, new_path)
    ELSE fs

\* lines 96-106 and 119-134: no name without both matches, and no rename in
\* test mode
rename_unless_taken(fs, pdf_path, new_name, test_mode) ==
    IF new_name = None \/ test_mode THEN fs
    ELSE rename_if_free(fs, pdf_path, join(dirname(pdf_path), new_name))

\* rename_udemy_file(pdf_path, test_mode): the file system it leaves
rename_udemy_file(fs, pdf_path, test_mode) ==
    IF open_raises(fs, pdf_path) THEN fs
    ELSE rename_unless_taken(fs, pdf_path, udemy_file_name_table[fs[pdf_path].text],
                             test_mode)

\* rename_cybrary_file(pdf_path, test_mode): the file system it leaves
rename_cybrary_file(fs, pdf_path, test_mode) ==
    IF open_raises(fs, pdf_path) THEN fs
    ELSE rename_unless_taken(fs, pdf_path, cybrary_file_name_table[fs[pdf_path].text],
                             test_mode)

(***************************************************************************)
(* extract_metadata (lines 140-245): the record it returns (NoRecord for   *)
(* None), the file system and the debug directory it leaves, and whether   *)
(* it raised and caught an error (lines 243-245).  The debug directory     *)
(* maps the name of each file in it to its text; it is made with its       *)
(* first file (line 152).                                                  *)
(***************************************************************************)
Returned(metadata, fs, debug, raised) ==
    [metadata |-> metadata, fs |-> fs, debug |-> debug, raised |-> raised]

\* lines 228-241, rn being what rename_file left (line 174)
extract_renamed(fs, debug, test_mode, filter_skill, filter_year, filter_title, fetch_urls, provider_id, f, rn) ==
    IF rn.raised THEN Returned(NoRecord, fs, debug, TRUE)
    ELSE IF filtered_out(f, filter_skill, filter_year, filter_title)
    THEN Returned(NoRecord, rn.fs, debug, FALSE)
    ELSE Returned(metadata_of(f, rn.path, test_mode, fetch_urls, provider_id),
                  rn.fs, debug, FALSE)

\* lines 160-241, f being the fields of the provider's block
extract_fields(fs, debug, pdf_path, test_mode, filter_skill, filter_year, filter_title, fetch_urls, provider_id, f) ==
    IF f = NoRecord THEN Returned(NoRecord, fs, debug, FALSE)
    ELSE extract_renamed(fs, debug, test_mode, filter_skill, filter_year,
                         filter_title, fetch_urls, provider_id, f,
                         IF provider_id = "udemy"
                         THEN rename_file(fs, pdf_path, f.completion, f.title)
                         ELSE [fs |-> fs, path |-> pdf_path, raised |-> FALSE])

\* lines 146-241, text being the normalized text
extract_text(fs, debug, pdf_path, test_mode, filter_skill, filter_year, filter_title, fetch_urls, provider_id, text) ==
    extract_fields(fs, With(debug, basename(pdf_path) \o ".txt", text), pdf_path,
                   test_mode, filter_skill, filter_year, filter_title, fetch_urls,
                   provider_id,
                   provider_fields_table[fields_key(provider_id, text, pdf_path,
                                                    fs[pdf_path])])

extract_metadata(fs, debug, pdf_path, test_mode, filter_skill, filter_year, filter_title, fetch_urls, provider_id) ==
    IF open_raises(fs, pdf_path) THEN Returned(NoRecord, fs, debug, TRUE)
    ELSE extract_text(fs, debug, pdf_path, test_mode, filter_skill, filter_year,
                      filter_title, fetch_urls, provider_id,
                      clean_text_table[fs[pdf_path].text])

(***************************************************************************)
(* The command line (parse_args).  The options that ask for reports, for   *)
(* exports or for a display are not given.                                 *)
(***************************************************************************)
MaxCap == 2

ArgSpace ==
    [test : 0..MaxCap,
     provider : {"", "cybrary"},
     filter_skill : {"", "sql"},
     filter_year : {"", "2024"},
     filter_title : {"", "intro"},
     fetch_urls : {FALSE},
     rename_udemy : BOOLEAN,
     rename_cybrary : BOOLEAN,
     dry_run : BOOLEAN]

(***************************************************************************)
(* The run (lines 324-435).                                                *)
(***************************************************************************)
VARIABLES
    args,           \* the parsed command line
    fs,             \* the files under BASE_DIR
    debug,          \* the files of DEBUG_DIR
    assets,         \* the files of ASSETS_DIR
    release,        \* the assets of the release
    jsons,          \* <provider>_certs.json of DATA_DIR, by provider
    pushed,         \* the data directory was committed and pushed
    pc,             \* where the run is
    pi,             \* the index of the provider of the loop of line 356
    dirs_left,      \* the directories os.walk has yet to yield
    root,           \* the directory os.walk yielded
    files,          \* the files of root yet to come
    file_count,
    metadata_list,
    passes,         \* history: how often each document went to extraction
    last            \* history: the last call of extract_metadata

vars == <<args, fs, debug, assets, release, jsons, pushed, pc, pi, dirs_left,
          root, files, file_count, metadata_list, passes, last>>

Empty == <<>>

Init ==
    /\ args \in ArgSpace
    /\ fs = InitialFS
    /\ debug = Empty
    /\ assets = Empty
    /\ release = Empty
    /\ jsons = Empty
    /\ pushed = FALSE
    /\ pc = "start"
    /\ pi = 1
    /\ dirs_left = <<>>
    /\ root = ""
    /\ files = {}
    /\ file_count = 0
    /\ metadata_list = <<>>
    /\ passes = Empty
    /\ last = NoRecord

provider_id == providers[pi].provider
provider_dir == providers[pi].subdirectory

\* lines 347-353: unless --dry-run, the release is made if it is missing;
\* its assets are as they were
Start ==
    /\ pc = "start"
    /\ pc' = "provider"
    /\ UNCHANGED <<args, fs, debug, assets, release, jsons, pushed, pi, dirs_left,
                   root, files, file_count, metadata_list, passes, last>>

\* lines 357-358
SkipProvider ==
    /\ pc = "provider" /\ pi <= Len(providers)
    /\ args.provider # "" /\ provider_id # args.provider
    /\ pi' = pi + 1
    /\ UNCHANGED <<args, fs, debug, assets, release, jsons, pushed, pc, dirs_left,
                   root, files, file_count, metadata_list, passes, last>>

\* lines 363 and 368
renames_first ==
    \/ provider_id = "udemy" /\ args.rename_udemy
    \/ provider_id = "cybrary" /\ args.rename_cybrary

\* lines 363-372: the walk that renames begins
BeginRename ==
    /\ pc = "provider" /\ pi <= Len(providers)
    /\ ~(args.provider # "" /\ provider_id # args.provider)
    /\ renames_first
    /\ pc' = "rename"
    /\ dirs_left' = walk_dirs(provider_dir)
    /\ files' = {}
    /\ UNCHANGED <<args, fs, debug, assets, release, jsons, pushed, pi, root,
                   file_count, metadata_list, passes, last>>

\* os.walk yields the next directory and its files
ListDir ==
    /\ pc \in {"rename", "walk"}
    /\ files = {} /\ dirs_left # <<>>
    /\ root' = Head(dirs_left)
    /\ dirs_left' = Tail(dirs_left)
    /\ files' = pdf_files(fs, Head(dirs_left))
    /\ UNCHANGED <<args, fs, debug, assets, release, jsons, pushed, pc, pi,
                   file_count, metadata_list, passes, last>>

\* lines 367 and 372, on any one of the files to come
RenameNext ==
    /\ pc = "rename"
    /\ \E file \in files :
         /\ files' = files \ {file}
         /\ fs' = IF provider_id = "udemy"
                  THEN rename_udemy_file(fs, join(root, file), args.dry_run)
                  ELSE rename_cybrary_file(fs, join(root, file), args.dry_run)
    /\ UNCHANGED <<args, debug, assets, release, jsons, pushed, pc, pi, dirs_left,
                   root, file_count, metadata_list, passes, last>>

\* lines 374-376: the walk that extracts begins
BeginWalk ==
    /\ \/ /\ pc = "provider" /\ pi <= Len(providers)
          /\ ~(args.provider # "" /\ provider_id # args.provider)
          /\ ~renames_first
       \/ pc = "rename" /\ files = {} /\ dirs_left = <<>>
    /\ pc' = "walk"
    /\ dirs_left' = walk_dirs(provider_dir)
    /\ files' = {}
    /\ metadata_list' = <<>>
    /\ file_count' = 0
    /\ passes' = Empty
    /\ UNCHANGED <<args, fs, debug, assets, release, jsons, pushed, pi, root, last>>

cap_reached_uncapped(test, count) == count >= test

\* lines 394 and 396
cap_reached(test, count) == test > 0 /\ count >= test

\* line 389: gh release upload --clobber puts the file, if there is one,
\* in place of an asset of its name
upload(rel, fs1, pdf_path) ==
    IF pdf_path \in DOMAIN fs1 THEN With(rel, basename(pdf_path), fs1[pdf_path])
    ELSE rel

\* lines 391-392: cp puts the file, if there is one, in ASSETS_DIR, in place
\* of a file of its name
copy_to_assets(dir, fs1, pdf_path) ==
    IF pdf_path \in DOMAIN fs1 THEN With(dir, basename(pdf_path), fs1[pdf_path])
    ELSE dir

\* lines 382-397 for the file at pdf_path, r being what extract_metadata
\* returned and left
Processed(file, pdf_path, r) ==
    LET publish == r.metadata # NoRecord /\ ~args.dry_run
    IN  /\ fs' = r.fs
        /\ debug' = r.debug
        /\ metadata_list' = IF r.metadata # NoRecord
                            THEN Append(metadata_list, r.metadata)
                            ELSE metadata_list
        /\ release' = IF publish /\ args.test = 0
                      THEN upload(release, r.fs, pdf_path) ELSE release
        /\ assets' = IF publish /\ args.test # 0
                     THEN copy_to_assets(assets, r.fs, pdf_path) ELSE assets
        /\ file_count' = file_count + 1
        /\ IF cap_reached(args.test, file_count + 1)
           THEN files' = {} /\ dirs_left' = <<>>
           ELSE files' = files \ {file} /\ dirs_left' = dirs_left
        /\ passes' = With(passes, fs[pdf_path].bytes,
                          IF fs[pdf_path].bytes \in DOMAIN passes
                          THEN passes[fs[pdf_path].bytes] + 1 ELSE 1)
        /\ last' = [path |-> pdf_path, provider |-> provider_id,
                    doc |-> fs[pdf_path], metadata |-> r.metadata,
                    raised |-> r.raised, published |-> publish]

\* lines 379-397, on any one of the files to come
ProcessFile ==
    /\ pc = "walk"
    /\ \E file \in files :
         Processed(file, join(root, file),
                   extract_metadata(fs, debug, join(root, file), args.test > 0,
                                    args.filter_skill, args.filter_year,
                                    args.filter_title, args.fetch_urls,
                                    provider_id))
    /\ UNCHANGED <<args, jsons, pushed, pc, pi, root>>

\* lines 399-407
EndProvider ==
    /\ pc = "walk" /\ files = {} /\ dirs_left = <<>>
    /\ jsons' = IF metadata_list # <<>> /\ ~args.dry_run
                THEN With(jsons, provider_id, metadata_list) ELSE jsons
    /\ pc' = "provider"
    /\ pi' = pi + 1
    /\ UNCHANGED <<args, fs, debug, assets, release, pushed, dirs_left, root, files,
                   file_count, metadata_list, passes, last>>

\* lines 434-435
Finish ==
    /\ pc = "provider" /\ pi > Len(providers)
    /\ pushed' = ~args.dry_run
    /\ pc' = "done"
    /\ UNCHANGED <<args, fs, debug, assets, release, jsons, pi, dirs_left, root,
                   files, file_count, metadata_list, passes, last>>

Next ==
    \/ Start
    \/ SkipProvider
    \/ BeginRename
    \/ ListDir
    \/ RenameNext
    \/ BeginWalk
    \/ ProcessFile
    \/ EndProvider
    \/ Finish

Spec == Init /\ [][Next]_vars

(***************************************************************************)
(* The rename operations on their own: rename_file (lines 68-88),          *)
(* rename_udemy_file (90-110) and rename_cybrary_file (112-138) called in  *)
(* any order, on any file, with any of the dates and titles the documents  *)
(* give.  last records the call and the file system it found.              *)
(***************************************************************************)
RenamePaths == {"udemy/a.pdf", "udemy/b.pdf", "cybrary/a.pdf"}

RenameFS == [q \in RenamePaths |-> InitialFS[q]]

RenameArgs ==
    {<<"March 5, 2024", "Intro to Networking!">>, <<"2024-01-15", "AI Agents">>,
     <<"03/05/2024", "Git course">>, <<"Apr 7, 2023", "">>}

RenameInit ==
    /\ args = [test |-> 0, provider |-> "", filter_skill |-> "", filter_year |-> "",
               filter_title |-> "", fetch_urls |-> FALSE, rename_udemy |-> TRUE,
               rename_cybrary |-> TRUE, dry_run |-> FALSE]
    /\ fs = RenameFS
    /\ debug = Empty
    /\ assets = Empty
    /\ release = Empty
    /\ jsons = Empty
    /\ pushed = FALSE
    /\ pc = "rename"
    /\ pi = 1
    /\ dirs_left = <<>>
    /\ root = ""
    /\ files = {}
    /\ file_count = 0
    /\ metadata_list = <<>>
    /\ passes = Empty
    /\ last = NoRecord

\* what a call leaves, r.fs being the file system after it
Called(call, r) ==
    /\ fs' = r.fs
    /\ last' = [op |-> call.op, path |-> call.path, date |-> call.date,
                title |-> call.title, test_mode |-> call.test_mode,
                before |-> fs, returned |-> r.path, raised |-> r.raised]
    /\ UNCHANGED <<args, debug, assets, release, jsons, pushed, pc, pi, dirs_left,
                   root, files, file_count, metadata_list, passes>>

\* rename_file(file_path, date, title), lines 68-88
CallRenameFile ==
    \E file_path \in RenamePaths \cup DOMAIN fs, k \in RenameArgs :
        Called([op |-> "rename_file", path |-> file_path, date |-> k[1],
                title |-> k[2], test_mode |-> FALSE],
               rename_file(fs, file_path, k[1], k[2]))

\* rename_udemy_file(pdf_path, test_mode), lines 90-110
CallRenameUdemy ==
    \E pdf_path \in RenamePaths \cup DOMAIN fs, test_mode \in BOOLEAN :
        Called([op |-> "rename_udemy_file", path |-> pdf_path, date |-> None,
                title |-> None, test_mode |-> test_mode],
               [fs |-> rename_udemy_file(fs, pdf_path, test_mode), path |-> None,
                raised |-> FALSE])

\* rename_cybrary_file(pdf_path, test_mode), lines 112-138
CallRenameCybrary ==
    \E pdf_path \in RenamePaths \cup DOMAIN fs, test_mode \in BOOLEAN :
        Called([op |-> "rename_cybrary_file", path |-> pdf_path, date |-> None,
                title |-> None, test_mode |-> test_mode],
               [fs |-> rename_cybrary_file(fs, pdf_path, test_mode), path |-> None,
                raised |-> FALSE])

RenameStep ==
    \/ CallRenameFile
    \/ CallRenameUdemy
    \/ CallRenameCybrary

RenameSpec == RenameInit /\ [][RenameStep]_vars

(***************************************************************************)
(* Properties of the run.  last_key names the document of the last call of *)
(* extract_metadata in the tables.                                         *)
(***************************************************************************)
last_key ==
    fields_key(last.provider, clean_text_table[last.doc.text], last.path, last.doc)

last_searches == provider_searches_table[last_key]

last_fields == provider_fields_table[last_key]

KnownProviders == {"udemy", "cybrary", "deeplearningai", "linkedinlearning"}

RequiredOf(p) ==
    IF p = "cybrary" THEN {"title", "date", "cert"} ELSE {"title", "date"}

\* C1: a document yields a record only if its provider is known and every
\* field the provider requires was found (udemy, deeplearningai and
\* linkedinlearning: title and date; cybrary: title, date and certificate
\* id); the record then carries a title, a completion date and a
\* certificate id.  When a required field is missing there is no record.
C1_NoPartialRecord ==
    \/ last = NoRecord
    \/ last.metadata = NoRecord
    \/ /\ last.provider \in KnownProviders
       /\ \A w \in RequiredOf(last.provider) : last_searches[w] # None
       /\ last.metadata.title # None
       /\ last.metadata.completion # None
       /\ last.metadata.cert_id # None

\* a cybrary document with a title and a date but no certificate id went
\* through extract_metadata
C1_MissingFieldSeen ==
    /\ last # NoRecord
    /\ last.provider = "cybrary" /\ last.doc.readable
    /\ last_searches.title # None /\ last_searches.date # None
    /\ last_searches.cert = None
    /\ last.metadata = NoRecord /\ ~last.raised

\* the documents of the provider under way, by their bytes
ProviderPdfs ==
    {fs[q].bytes : q \in {x \in DOMAIN fs : under(x, provider_dir)
                                            /\ endswith(x, ".pdf")}}

IsPrefix(s, t) == Len(s) <= Len(t) /\ SubSeq(t, 1, Len(s)) = s

C2_WalkDone ==
    /\ (pc = "walk" /\ files = {} /\ dirs_left = <<>> /\ args.test = 0)
       => /\ DOMAIN passes = ProviderPdfs
          /\ \A b \in DOMAIN passes : passes[b] = 1
    /\ \A b \in DOMAIN passes : args.test = 0 => passes[b] = 1
    /\ (last # NoRecord /\ last.raised) => last.metadata = NoRecord

C2_RecordsKept ==
    (pc = "walk" /\ pc' = "walk") => IsPrefix(metadata_list, metadata_list')

\* C2: without a cap, when the walk of a provider ends every .pdf document
\* of the provider went through extraction exactly once; a document whose
\* reading or extraction raised gives no record; and no step of the walk
\* drops a record already collected.
C2_EachDocumentOnce == [](C2_WalkDone) /\ [][C2_RecordsKept]_vars

\* without a cap, a document that cannot be read went through extraction
\* and a later document of the same provider gave a record
C2_FailureThenRecord ==
    /\ last # NoRecord /\ args.test = 0 /\ pc = "walk"
    /\ last.metadata # NoRecord /\ last.doc.readable
    /\ \E q \in DOMAIN fs : ~fs[q].readable /\ fs[q].bytes \in DOMAIN passes

(***************************************************************************)
(* Properties of the rename operations.  last_target is the path the last  *)
(* call derived for its file, None when it derived none.                   *)
(***************************************************************************)
target_named(path, new_name) ==
    IF new_name = None THEN None ELSE join(dirname(path), new_name)

text_target(before, path, names) ==
    IF open_raises(before, path) THEN None
    ELSE target_named(path, names[before[path].text])

last_target ==
    CASE last.op = "rename_file" ->
           IF last.date # "" /\ last.title # ""
           THEN target_named(last.path, derived_name_table[<<last.date, last.title>>])
           ELSE None
      [] last.op = "rename_udemy_file" ->
           text_target(last.before, last.path, udemy_file_name_table)
      [] last.op = "rename_cybrary_file" ->
           text_target(last.before, last.path, cybrary_file_name_table)

\* the file system after the file at src has gone to the free path dst
Moved(before, src, dst) ==
    [q \in (DOMAIN before \ {src}) \cup {dst} |->
       IF q = dst THEN before[src] ELSE before[q]]

\* the file system after the last call is made once more
Again ==
    CASE last.op = "rename_file" ->
           rename_file(fs, last.path, last.date, last.title).fs
      [] last.op = "rename_udemy_file" ->
           rename_udemy_file(fs, last.path, last.test_mode)
      [] last.op = "rename_cybrary_file" ->
           rename_cybrary_file(fs, last.path, last.test_mode)

BytesOf(f) == {f[q].bytes : q \in DOMAIN f}

\* C3: after any sequence of rename_file, rename_udemy_file and
\* rename_cybrary_file no file is overwritten or lost; a call changes the
\* file system only by moving its file to the derived target, and only when
\* the target did not exist and differs from the source; making the same
\* call again changes nothing.
C3_RenamesKeepFiles ==
    /\ Cardinality(DOMAIN fs) = Cardinality(DOMAIN RenameFS)
    /\ BytesOf(fs) = BytesOf(RenameFS)
    /\ \/ last = NoRecord
       \/ /\ fs # last.before
             => /\ last_target # None
                /\ last.path \in DOMAIN last.before
                /\ last_target \notin DOMAIN last.before
                /\ last_target # last.path
                /\ fs = Moved(last.before, last.path, last_target)
          /\ Again = fs

\* a call found another file at its target and left the file system as it was
C3_TargetTaken ==
    /\ last # NoRecord
    /\ last_target # None
    /\ last.path \in DOMAIN last.before
    /\ last_target \in DOMAIN last.before
    /\ last_target # last.path
    /\ fs = last.before

\* C4: when the target path exists already, rename_file renames nothing and
\* returns the original path.
C4_OriginalPathOnConflict ==
    \/ last = NoRecord
    \/ last.op # "rename_file"
    \/ last.path \notin DOMAIN last.before
    \/ last_target = None
    \/ ~exists(last.before, last_target)
    \/ fs = last.before /\ last.returned = last.path

\* r'[^\w\- ]'
RE_not_word_hyphen_space == <<Rep(NotIn(Word \cup {"-", " "}), 1, 1)>>

\* the title in lower case, without the characters that are neither word
\* characters nor hyphens nor spaces, its spaces turned into hyphens
claimed_title(title) ==
    replace(lower(re_sub(RE_not_word_hyphen_space, "", title)), " ", "-")

claimed_name(date, title) ==
    normalize_date(date) \o "-" \o claimed_title(title) \o ".pdf"

\* C6: for a date '<Month-name> <day>, <year>' and a non-empty title
\* rename_file derives '<YYYY>-<MM>-<DD>-<sanitized title>.pdf', the spaces
\* of the title being hyphens: 'March 5, 2024' and 'Intro to Networking!'
\* give '2024-03-05-intro-to-networking.pdf'.
C6_DerivedFileName ==
    \/ last = NoRecord
    \/ last.op # "rename_file"
    \/ last.raised
    \/ last.title = ""
    \/ re_match(RE_month_day_year, last.date) = NoMatch
    \/ /\ claimed_name("March 5, 2024", "Intro to Networking!")
            = "2024-03-05-intro-to-networking.pdf"
       /\ basename(last.returned) = claimed_name(last.date, last.title)

(***************************************************************************)
(* Properties of the run, continued.                                       *)
(***************************************************************************)
\* C5: with --dry-run nothing is renamed, created, written, copied or
\* uploaded: the documents, the debug directory, the assets directory, the
\* release and the data directory stay as they were before the run.
C5_DryRunChangesNothing ==
    args.dry_run => /\ fs = InitialFS
                    /\ debug = Empty
                    /\ assets = Empty
                    /\ release = Empty
                    /\ jsons = Empty
                    /\ ~pushed

\* C7: a copy into the assets directory never replaces a file that is
\* there already.
C7_AssetsNeverOverwritten ==
    [][\A w \in DOMAIN assets : w \in DOMAIN assets' /\ assets'[w] = assets[w]]_vars

MonthTitles == <<"January", "February", "March", "April", "May", "June", "July",
                 "August", "September", "October", "November", "December">>

\* '<Month> <day>, <year> <hour>:<minute><AM|PM> UTC' for each of the
\* twelve months, or '<mm>/<dd>/<yyyy>'
RE_any_month_stamp ==
    <<Open(1),
      Alt(<< <<Alt([i \in 1..12 |-> <<Lit(MonthTitles[i])>>]), Lit(" "),
               Rep(In(Digit), 1, 2), Lit(", "), Rep(In(Digit), 4, 4),
               Lit(" "), Rep(In(Digit), 1, 2), Lit(":"), Rep(In(Digit), 2, 2),
               Rep(In({"A", "P"}), 1, 1), Lit("M UTC")>>,
             <<Rep(In(Digit), 2, 2), Lit("/"), Rep(In(Digit), 2, 2), Lit("/"),
               Rep(In(Digit), 4, 4)>> >>),
      Close(1)>>

\* the first such timestamp or date of each normalized text, None without one
any_month_stamp_table ==
    [t \in {clean_text_table[x] : x \in CorpusTexts} |->
       found(t, re_search(RE_any_month_stamp, t, {}))]

last_stamp == any_month_stamp_table[clean_text_table[last.doc.text]]

no_filter ==
    args.filter_skill = "" /\ args.filter_year = "" /\ args.filter_title = ""

\* C8: a cybrary document whose normalized text has the title pattern, a
\* certificate id and a completion timestamp of any of the twelve months
\* (or a date mm/dd/yyyy) yields a record whose completion date is the
\* first such match (no filter being given).
C8_AnyMonthStamp ==
    \/ last = NoRecord
    \/ last.provider # "cybrary"
    \/ ~last.doc.readable
    \/ ~no_filter
    \/ last_searches.title = None
    \/ last_searches.cert = None
    \/ last_stamp = None
    \/ /\ last.metadata # NoRecord
       /\ last.metadata.completion = last_stamp

\* C9: every record extract_metadata returns has a non-empty title.
C9_TitleNonEmpty ==
    \/ last = NoRecord
    \/ last.metadata = NoRecord
    \/ last.metadata.title # ""

\* the pattern w, of literal characters, is found in s whatever the case
contains(s, w) ==
    \E i \in 1..(Len(s) - Len(w) + 1) : lower(SubSeq(s, i, i + Len(w) - 1)) = lower(w)

passes_filters(f) ==
    /\ args.filter_skill = "" \/ contains(f.skills, args.filter_skill)
    /\ args.filter_year = "" \/ f.year = args.filter_year
    /\ args.filter_title = "" \/ contains(f.title, args.filter_title)

MaxTextLen == 5

TextChars == {"a", "b", " ", "\n"}

RECURSIVE TextsUpTo(_)
TextsUpTo(n) ==
    IF n = 0 THEN {""}
    ELSE TextsUpTo(n - 1)
         \cup {t \o c : t \in {x \in TextsUpTo(n - 1) : Len(x) = n - 1}, c \in TextChars}

CleanTexts == TextsUpTo(MaxTextLen)

CleanInit ==
    /\ args = [test |-> 0, provider |-> "", filter_skill |-> "", filter_year |-> "",
               filter_title |-> "", fetch_urls |-> FALSE, rename_udemy |-> FALSE,
               rename_cybrary |-> FALSE, dry_run |-> FALSE]
    /\ fs = Empty
    /\ debug = Empty
    /\ assets = Empty
    /\ release = Empty
    /\ jsons = Empty
    /\ pushed = FALSE
    /\ pc = "text"
    /\ pi = 1
    /\ dirs_left = <<>>
    /\ root = ""
    /\ files = {}
    /\ file_count = 0
    /\ metadata_list = <<>>
    /\ passes = Empty
    /\ \E t \in CleanTexts : last = [text |-> t, once |-> None, twice |-> None]

\* text = clean_text(text), line 146
CleanOnce ==
    /\ pc = "text"
    /\ pc' = "once"
    /\ last' = [last EXCEPT !.once = clean_text(last.text)]
    /\ UNCHANGED <<args, fs, debug, assets, release, jsons, pushed, pi, dirs_left,
                   root, files, file_count, metadata_list, passes>>

\* clean_text on a text that is normalized already
CleanTwice ==
    /\ pc = "once"
    /\ pc' = "twice"
    /\ last' = [last EXCEPT !.twice = clean_text(last.once)]
    /\ UNCHANGED <<args, fs, debug, assets, release, jsons, pushed, pi, dirs_left,
                   root, files, file_count, metadata_list, passes>>

CleanStep ==
    \/ CleanOnce
    \/ CleanTwice

CleanSpec == CleanInit /\ [][CleanStep]_vars

\* the characters of s from the i-th on, without those that repeat the
\* character before them
RECURSIVE runs_collapsed(_, _)
runs_collapsed(s, i) ==
    IF i > Len(s) THEN ""
    ELSE (IF i > 1 /\ CharAt(s, i) = CharAt(s, i - 1) THEN "" ELSE CharAt(s, i))
         \o runs_collapsed(s, i + 1)

\* the characters of s from the i-th on, each run of whitespace being one
\* space
RECURSIVE spaces_collapsed(_, _)
spaces_collapsed(s, i) ==
    IF i > Len(s) THEN ""
    ELSE (IF CharAt(s, i) \notin Space THEN CharAt(s, i)
          ELSE IF i > 1 /\ CharAt(s, i - 1) \in Space THEN "" ELSE " ")
         \o spaces_collapsed(s, i + 1)

\* s without the spaces at its ends
trimmed(s) ==
    IF \A i \in 1..Len(s) : CharAt(s, i) = " " THEN ""
    ELSE SubSeq(s, CHOOSE i \in 1..Len(s) :
                     CharAt(s, i) # " " /\ \A j \in 1..(i - 1) : CharAt(s, j) = " ",
                CHOOSE i \in 1..Len(s) :
                     CharAt(s, i) # " " /\ \A j \in (i + 1)..Len(s) : CharAt(s, j) = " ")

claimed_clean(s) == trimmed(spaces_collapsed(runs_collapsed(s, 1), 1))

\* C11: clean_text collapses every run of two or more identical characters
\* to one, then every run of whitespace to one space, then trims the ends;
\* and clean_text of a text it returned is that text.
C11_CleanTextIdempotent ==
    /\ pc \in {"once", "twice"} => last.once = claimed_clean(last.text)
    /\ pc = "twice" => last.twice = last.once

\* clean_text ran twice on a text with a doubled letter, a run of different
\* whitespace characters and whitespace at an end
C11_CleanedTwice ==
    /\ pc = "twice"
    /\ \E i \in 1..(Len(last.text) - 1) :
         CharAt(last.text, i) = CharAt(last.text, i + 1) /\ CharAt(last.text, i) = "a"
    /\ \E i \in 1..(Len(last.text) - 1) :
         CharAt(last.text, i) = " " /\ CharAt(last.text, i + 1) = "\n"
    /\ last.once # "" /\ last.once # last.text

\* C12: unless --dry-run, when a document yields a record the path handed
\* to the upload or to the copy names a file that exists then, and its
\* basename is the one the record's pdf_url ends with; udemy documents,
\* which extract_metadata renames, included.
C12_PublishedPathExists ==
    \/ last = NoRecord
    \/ ~last.published
    \/ /\ last.path \in DOMAIN fs
       /\ endswith(last.metadata.pdf_url, "/" \o quote(basename(last.path)))

=============================================================================
